---- MODULE Spec2Model ----
(***************************************************************************)
(* The battleship program of programs/battleship/src/lib.rs: one Game      *)
(* account, the six instructions that act on it, and the shot-consistency  *)
(* audit.  Every instruction is one atomic step.  A handler is an operator *)
(* from the account's record and the call's inputs to the pair             *)
(* [err, game]: the error it returns ("Ok" for Ok(())) and the record as   *)
(* the handler has left it in memory at the point of return.  Commit is    *)
(* the entry point's write-back of that record.                            *)
(*                                                                         *)
(* Scaling.  The program's board is 10 x 10 and its fleet has 17 ship      *)
(* squares.  The model keeps the program's formulas (x < GRID, the index   *)
(* x + GRID * y, GRID * GRID cells, hits >= FleetSize, ship_count =        *)
(* FleetSize) over a GRID of 2 and a FleetSize of 2, so that a whole game  *)
(* and a whole grid can be played out.                                     *)
(***************************************************************************)
EXTENDS Integers, Sequences, FiniteSets, TLC

\* ---------------------------------------------------------------- constants

\* The side of the board: 10 in the program (x < 10 && y < 10,
\* coordinate_index = x + 10 * y, [0; 100]).
GRID == 2

\* [0; 100]: the cells of a board and of a hit-grid.
BOARD_CELLS == GRID * GRID

\* The values of a hit-grid cell: 0 = not shot, 1 = miss, 2 = hit.
Untouched == 0
Miss == 1
Hit == 2

\* The value of a ship-occupied cell of a revealed board (cell == 1).
Ship == 1

\* Ship squares of a fleet: 17 in the program (hits >= 17, ship_count == 17).
FleetSize == 2

\* Pubkey::default() and [0; 32].
DefaultKey == 0
ZeroCommit == 0

\* The signer whose key is the seed of the Game account under study
\* (seeds = [b"game", player.key()]); the other signers are 2 and 3.
PdaPlayer == 1
Signers == {PdaPlayer, 2, 3}

Cells == 0 .. (BOARD_CELLS - 1)

\* Option<(u8, u8)>: None, or Some((x, y)) as the pair.
None == << >>

\* ---------------------------------------------------------------- inputs

\* Coordinates a caller passes to fire_shot: every coordinate of the grid,
\* and GRID itself, which is off the grid.
Coords == 0 .. GRID

\* The k smallest elements of a set of numbers.
RECURSIVE Smallest(_, _)
Smallest(S, k) ==
    IF k = 0 \/ S = {} THEN {}
    ELSE LET m == CHOOSE a \in S : \A b \in S : a <= b
         IN {m} \cup Smallest(S \ {m}, k - 1)

ShipsAt(S) == [i \in Cells |-> IF i \in S THEN Ship ELSE 0]

\* Boards ([u8; 100], here of 0 and 1 bytes) a player commits to or reveals:
\*   BoardA     FleetSize ships, on the first cells;
\*   BoardOver  FleetSize + 1 ships;
\*   BoardUnder FleetSize - 1 ships.
BoardA == ShipsAt(Smallest(Cells, FleetSize))
BoardOver == ShipsAt(Smallest(Cells, FleetSize + 1))

BoardUnder == ShipsAt(Smallest(Cells, FleetSize - 1))

BoardPool == <<BoardA, BoardOver, BoardUnder>>
Boards == {BoardPool[k] : k \in DOMAIN BoardPool}
Salts == {0, 1}

\* hash(board || salt): a black box, injective on the inputs above; it never
\* yields the all-zero digest.
Hash(board, salt) ==
    LET k == CHOOSE n \in DOMAIN BoardPool : BoardPool[n] = board
    IN 1 + salt + Cardinality(Salts) * (k - 1)

\* What a player passes as board_commitment: the hash of a board and salt 0.
Commitments == {Hash(b, 0) : b \in Boards}

\* ---------------------------------------------------------------- state

VARIABLES
    created,    \* the Game account exists (initialize_game has run)
    game,       \* the Game account's record
    accepted1,  \* history: the board reveal_board_player1 accepted, or None
    accepted2   \* history: the board reveal_board_player2 accepted, or None

vars == <<created, game, accepted1, accepted2>>

\* The record of an account that does not exist yet: all zero.
ZeroGame ==
    [player1 |-> DefaultKey, player2 |-> DefaultKey,
     board_commit1 |-> ZeroCommit, board_commit2 |-> ZeroCommit,
     turn |-> 0,
     board_hits1 |-> [i \in Cells |-> Untouched],
     board_hits2 |-> [i \in Cells |-> Untouched],
     hits_count1 |-> 0, hits_count2 |-> 0,
     is_initialized |-> FALSE, is_game_over |-> FALSE, winner |-> 0,
     pending_shot |-> None, pending_shot_by |-> DefaultKey,
     player1_revealed |-> FALSE, player2_revealed |-> FALSE]

Ok(g) == [err |-> "Ok", game |-> g]
Err(e, g) == [err |-> e, game |-> g]

\* ---------------------------------------------------------------- handlers

initialize_game(g, player, board_commitment) ==
    Ok([player1 |-> player, player2 |-> DefaultKey,
        board_commit1 |-> board_commitment, board_commit2 |-> ZeroCommit,
        turn |-> 1,
        board_hits1 |-> [i \in Cells |-> Untouched],
        board_hits2 |-> [i \in Cells |-> Untouched],
        hits_count1 |-> 0, hits_count2 |-> 0,
        is_initialized |-> FALSE, is_game_over |-> FALSE, winner |-> 0,
        pending_shot |-> None, pending_shot_by |-> DefaultKey,
        player1_revealed |-> FALSE, player2_revealed |-> FALSE])

\* Mutant of join_game: a game that already has two players can be joined.
join_game_when_full(g, player, board_commitment) ==
    IF g.player1 = player THEN Err("CannotPlayAgainstYourself", g)
    ELSE Ok([g EXCEPT !.player2 = player,
                      !.board_commit2 = board_commitment,
                      !.is_initialized = TRUE])

\* Mutant of join_game: player1 can join the own game.
join_game_self_play(g, player, board_commitment) ==
    IF g.is_initialized THEN Err("GameAlreadyFull", g)
    ELSE Ok([g EXCEPT !.player2 = player,
                      !.board_commit2 = board_commitment,
                      !.is_initialized = TRUE])

join_game(g, player, board_commitment) ==
    IF g.is_initialized THEN Err("GameAlreadyFull", g)
    ELSE IF g.player1 = player THEN Err("CannotPlayAgainstYourself", g)
    ELSE Ok([g EXCEPT !.player2 = player,
                      !.board_commit2 = board_commitment,
                      !.is_initialized = TRUE])

\* coordinate_index = (x + 10 * y) as usize
CoordinateIndex(x, y) == x + GRID * y

\* Mutant of OpponentBoard: the firer's own hit-grid is looked up.
OwnBoard(g, is_player1) == IF is_player1 THEN g.board_hits1 ELSE g.board_hits2

\* let opponent_board = if is_player1 { &game.board_hits2 } else { &game.board_hits1 }
OpponentBoard(g, is_player1) == IF is_player1 THEN g.board_hits2 ELSE g.board_hits1

\* Mutant of SetPending: the shot is also marked on the opponent's hit-grid.
SetPendingAndMark(g, player, x, y) ==
    IF player = g.player1
    THEN [g EXCEPT !.pending_shot = <<x, y>>, !.pending_shot_by = player,
                   !.board_hits2[CoordinateIndex(x, y)] = Miss]
    ELSE [g EXCEPT !.pending_shot = <<x, y>>, !.pending_shot_by = player,
                   !.board_hits1[CoordinateIndex(x, y)] = Miss]

\* game.pending_shot = Some((x, y)); game.pending_shot_by = current_player
SetPending(g, player, x, y) ==
    [g EXCEPT !.pending_shot = <<x, y>>, !.pending_shot_by = player]

fire_shot(g, player, x, y) ==
    LET is_player1 == player = g.player1
        is_player2 == player = g.player2
        opponent_board == OpponentBoard(g, is_player1)
    IN  IF ~g.is_initialized THEN Err("GameNotReady", g)
        ELSE IF g.is_game_over THEN Err("GameOver", g)
        ELSE IF ~(x < GRID /\ y < GRID) THEN Err("InvalidCoordinate", g)
        ELSE IF g.pending_shot # None THEN Err("ShotPending", g)
        ELSE IF ~(is_player1 \/ is_player2) THEN Err("NotAPlayer", g)
        ELSE IF ~((g.turn = 1 /\ is_player1) \/ (g.turn = 2 /\ is_player2))
             THEN Err("NotYourTurn", g)
        ELSE IF opponent_board[CoordinateIndex(x, y)] # Untouched
             THEN Err("AlreadyShotHere", g)
        ELSE Ok(SetPending(g, player, x, y))

\* Mutant of ShotMark: the two marks are exchanged.
ShotMarkSwapped(was_hit) == IF was_hit THEN Miss ELSE Hit

\* defender_board[coordinate_index] = 2 for a hit, = 1 for a miss
ShotMark(was_hit) == IF was_hit THEN Hit ELSE Miss

\* Mutant of WinReached: the threshold is passed, not reached.
WinReachedLate(count) == count > FleetSize

\* if *defender_hits_count >= 17
WinReached(count) == count >= FleetSize

\* Mutant of OtherTurn: the turn is not handed over.
OtherTurnStuck(turn) == turn

\* game.turn = if game.turn == 1 { 2 } else { 1 }
OtherTurn(turn) == IF turn = 1 THEN 2 ELSE 1

\* Mutant of IsDefender: the player who fired is taken for the defender.
IsFirer(g, is_player1, is_player2) ==
    IF g.pending_shot_by = g.player1 THEN is_player1 ELSE is_player2

\* let is_defender = if game.pending_shot_by == game.player1 { is_player2 }
\* else { is_player1 }
IsDefender(g, is_player1, is_player2) ==
    IF g.pending_shot_by = g.player1 THEN is_player2 ELSE is_player1

\* Mutant of ClearPending: the shot that ends the game stays pending.
ClearPendingUnlessOver(g) ==
    IF g.is_game_over THEN g
    ELSE [g EXCEPT !.pending_shot = None, !.pending_shot_by = DefaultKey]

\* game.pending_shot = None; game.pending_shot_by = Pubkey::default()
ClearPending(g) ==
    [g EXCEPT !.pending_shot = None, !.pending_shot_by = DefaultKey]

reveal_shot_result(g, player, was_hit) ==
    LET is_player1 == player = g.player1
        is_player2 == player = g.player2
        is_defender == IsDefender(g, is_player1, is_player2)
    IN  IF ~g.is_initialized THEN Err("GameNotReady", g)
        ELSE IF g.is_game_over THEN Err("GameOver", g)
        ELSE IF g.pending_shot = None THEN Err("NoPendingShot", g)
        ELSE IF ~(is_player1 \/ is_player2) THEN Err("NotAPlayer", g)
        ELSE IF ~is_defender THEN Err("NotDefender", g)
        ELSE
          LET i == CoordinateIndex(g.pending_shot[1], g.pending_shot[2])
              attacker_player_num == IF is_player1 THEN 2 ELSE 1
              mark == ShotMark(was_hit)
              \* u8 counter: += 1 (it never passes the threshold, far below 255)
              count == (IF is_player1 THEN g.hits_count1 ELSE g.hits_count2)
                       + (IF was_hit THEN 1 ELSE 0)
              won == was_hit /\ WinReached(count)
              g1 == IF is_player1
                    THEN [g EXCEPT !.board_hits1[i] = mark, !.hits_count1 = count]
                    ELSE [g EXCEPT !.board_hits2[i] = mark, !.hits_count2 = count]
              g2 == IF won
                    THEN [g1 EXCEPT !.is_game_over = TRUE,
                                    !.winner = attacker_player_num]
                    ELSE g1
              g3 == ClearPending(g2)
          IN  Ok(IF ~g3.is_game_over
                 THEN [g3 EXCEPT !.turn = OtherTurn(g3.turn)]
                 ELSE g3)

\* Whether a revealed board agrees with a hit-grid, cell by cell: a miss must
\* be a 0 byte of the board, a hit must be a 1 byte.
CellsAgree(hits_board, revealed_board) ==
    \A i \in Cells :
        /\ hits_board[i] = Miss => revealed_board[i] = 0
        /\ hits_board[i] = Hit => revealed_board[i] = Ship

verify_shot_consistency(g, revealed_board, is_player1_board) ==
    LET hits_board == IF is_player1_board THEN g.board_hits1 ELSE g.board_hits2
    IN  IF CellsAgree(hits_board, revealed_board) THEN "Ok" ELSE "CheatingDetected"

\* original_board.iter().filter(|&&cell| cell == 1).count()
ShipCount(board) == Cardinality({i \in Cells : board[i] = Ship})

\* Mutant of FleetOk: a fleet of at least the size passes.
FleetOkAtLeast(board) == ShipCount(board) >= FleetSize

\* require!(ship_count == 17, ...)
FleetOk(board) == ShipCount(board) = FleetSize

\* Mutant of CommitmentOk: the salt is left out of the comparison.
CommitmentOkAnySalt(board, salt, stored) ==
    \E other \in Salts : Hash(board, other) = stored

\* require!(computed_hash == game.board_commit, ...)
CommitmentOk(board, salt, stored) == Hash(board, salt) = stored

\* Mutant of reveal_board_player1: the board can be revealed before the game
\* is over.
reveal_board_player1_any_time(g, player, original_board, salt) ==
    IF player # g.player1 THEN Err("NotPlayer1", g)
    ELSE IF g.player1_revealed THEN Err("AlreadyRevealed", g)
    ELSE IF ~CommitmentOk(original_board, salt, g.board_commit1)
         THEN Err("CommitmentMismatch", g)
    ELSE IF ~FleetOk(original_board) THEN Err("InvalidFleetConfiguration", g)
    ELSE
      LET g1 == [g EXCEPT !.player1_revealed = TRUE]
          audit == IF g1.player2_revealed
                   THEN verify_shot_consistency(g1, original_board, TRUE)
                   ELSE "Ok"
      IN  [err |-> audit, game |-> g1]

reveal_board_player1(g, player, original_board, salt) ==
    IF ~g.is_game_over THEN Err("GameNotOver", g)
    ELSE IF player # g.player1 THEN Err("NotPlayer1", g)
    ELSE IF g.player1_revealed THEN Err("AlreadyRevealed", g)
    ELSE IF ~CommitmentOk(original_board, salt, g.board_commit1)
         THEN Err("CommitmentMismatch", g)
    ELSE IF ~FleetOk(original_board) THEN Err("InvalidFleetConfiguration", g)
    ELSE
      LET g1 == [g EXCEPT !.player1_revealed = TRUE]
          audit == IF g1.player2_revealed
                   THEN verify_shot_consistency(g1, original_board, TRUE)
                   ELSE "Ok"
      IN  [err |-> audit, game |-> g1]

\* Mutant of reveal_board_player2: the board is compared with the hit-grid
\* whether or not player1 has revealed.
reveal_board_player2_audit_always(g, player, original_board, salt) ==
    IF ~g.is_game_over THEN Err("GameNotOver", g)
    ELSE IF player # g.player2 THEN Err("NotPlayer2", g)
    ELSE IF g.player2_revealed THEN Err("AlreadyRevealed", g)
    ELSE IF ~CommitmentOk(original_board, salt, g.board_commit2)
         THEN Err("CommitmentMismatch", g)
    ELSE IF ~FleetOk(original_board) THEN Err("InvalidFleetConfiguration", g)
    ELSE
      LET g1 == [g EXCEPT !.player2_revealed = TRUE]
      IN  [err |-> verify_shot_consistency(g1, original_board, FALSE),
           game |-> g1]

reveal_board_player2(g, player, original_board, salt) ==
    IF ~g.is_game_over THEN Err("GameNotOver", g)
    ELSE IF player # g.player2 THEN Err("NotPlayer2", g)
    ELSE IF g.player2_revealed THEN Err("AlreadyRevealed", g)
    ELSE IF ~CommitmentOk(original_board, salt, g.board_commit2)
         THEN Err("CommitmentMismatch", g)
    ELSE IF ~FleetOk(original_board) THEN Err("InvalidFleetConfiguration", g)
    ELSE
      LET g1 == [g EXCEPT !.player2_revealed = TRUE]
          audit == IF g1.player1_revealed
                   THEN verify_shot_consistency(g1, original_board, FALSE)
                   ELSE "Ok"
      IN  [err |-> audit, game |-> g1]

\* ---------------------------------------------------------------- entry points

\* Mutant of InitConstraints: an existing account is initialized again
\* (init_if_needed in place of init).
InitConstraintsIfNeeded(player) ==
    IF player # PdaPlayer THEN "ConstraintSeeds" ELSE "Ok"

\* The account constraints of initialize_game: the Game account is created by
\* the instruction (init), at the address derived from the signer's key.
InitConstraints(player) ==
    IF player # PdaPlayer THEN "ConstraintSeeds"
    ELSE IF created THEN "AccountAlreadyInUse"
    ELSE "Ok"

\* The account constraint of the other instructions: Account<'info, Game>
\* must hold a Game.
GameConstraint == IF created THEN "Ok" ELSE "AccountNotInitialized"

\* Mutant of Commit: the handler's record is written back whatever it returned.
CommitAlways(g, r) == r.game

\* What the account holds after the instruction: the handler's record when it
\* returned Ok(()); an instruction that returns an error writes nothing back.
Commit(g, r) == IF r.err = "Ok" THEN r.game ELSE g

\* One instruction on the account: constraints, handler, write-back.  The
\* result is what the caller gets (err) and what the account holds (game).
Instruction(constraint, r) ==
    IF constraint = "Ok"
    THEN [err |-> r.err, game |-> Commit(game, r)]
    ELSE [err |-> constraint, game |-> game]

InitializeGameCall(player, c) ==
    Instruction(InitConstraints(player), initialize_game(game, player, c))

JoinGameCall(player, c) ==
    Instruction(GameConstraint, join_game(game, player, c))

FireShotCall(player, x, y) ==
    Instruction(GameConstraint, fire_shot(game, player, x, y))

RevealShotResultCall(player, was_hit) ==
    Instruction(GameConstraint, reveal_shot_result(game, player, was_hit))

RevealBoardPlayer1Call(player, board, salt) ==
    Instruction(GameConstraint, reveal_board_player1(game, player, board, salt))

RevealBoardPlayer2Call(player, board, salt) ==
    Instruction(GameConstraint, reveal_board_player2(game, player, board, salt))

\* ---------------------------------------------------------------- actions

InitializeGame(player, c) ==
    /\ game' = InitializeGameCall(player, c).game
    /\ created' = (created \/ InitializeGameCall(player, c).err = "Ok")
    /\ UNCHANGED <<accepted1, accepted2>>

JoinGame(player, c) ==
    /\ game' = JoinGameCall(player, c).game
    /\ UNCHANGED <<created, accepted1, accepted2>>

FireShot(player, x, y) ==
    /\ game' = FireShotCall(player, x, y).game
    /\ UNCHANGED <<created, accepted1, accepted2>>

RevealShotResult(player, was_hit) ==
    /\ game' = RevealShotResultCall(player, was_hit).game
    /\ UNCHANGED <<created, accepted1, accepted2>>

RevealBoardPlayer1(player, board, salt) ==
    /\ game' = RevealBoardPlayer1Call(player, board, salt).game
    /\ accepted1' = IF RevealBoardPlayer1Call(player, board, salt).err = "Ok"
                    THEN board ELSE accepted1
    /\ UNCHANGED <<created, accepted2>>

RevealBoardPlayer2(player, board, salt) ==
    /\ game' = RevealBoardPlayer2Call(player, board, salt).game
    /\ accepted2' = IF RevealBoardPlayer2Call(player, board, salt).err = "Ok"
                    THEN board ELSE accepted2
    /\ UNCHANGED <<created, accepted1>>

\* Before initialize_game the account does not exist.
Init ==
    /\ created = FALSE
    /\ game = ZeroGame
    /\ accepted1 = None
    /\ accepted2 = None

Next ==
    \/ \E p \in Signers, c \in Commitments : InitializeGame(p, c)
    \/ \E p \in Signers, c \in Commitments : JoinGame(p, c)
    \/ \E p \in Signers, x \in Coords, y \in Coords : FireShot(p, x, y)
    \/ \E p \in Signers, was_hit \in BOOLEAN : RevealShotResult(p, was_hit)
    \/ \E p \in Signers, b \in Boards, s \in Salts : RevealBoardPlayer1(p, b, s)
    \/ \E p \in Signers, b \in Boards, s \in Salts : RevealBoardPlayer2(p, b, s)

Spec == Init /\ [][Next]_vars

\* ---------------------------------------------------------------- calls

\* P holds of every call a signer can make in the current state, a call being
\* the result [err, game] of the instruction.
EveryCall(P(_)) ==
    /\ \A p \in Signers, c \in Commitments :
         P(InitializeGameCall(p, c)) /\ P(JoinGameCall(p, c))
    /\ \A p \in Signers, x \in Coords, y \in Coords : P(FireShotCall(p, x, y))
    /\ \A p \in Signers, w \in BOOLEAN : P(RevealShotResultCall(p, w))
    /\ \A p \in Signers, b \in Boards, s \in Salts :
         P(RevealBoardPlayer1Call(p, b, s)) /\ P(RevealBoardPlayer2Call(p, b, s))

\* The step is a successful reveal_shot_result with the given report.
ResolveStep(w) ==
    \E p \in Signers :
        /\ RevealShotResultCall(p, w).err = "Ok"
        /\ game' = RevealShotResultCall(p, w).game

\* A revealed board agrees with a hit-grid: no cell recorded as a miss is
\* ship-occupied and every cell recorded as a hit is.
Agrees(board, hits) ==
    \A i \in Cells :
        /\ hits[i] = Miss => board[i] # Ship
        /\ hits[i] = Hit => board[i] = Ship

\* The number of cells of a hit-grid that hold a value.
CountOf(hits, v) == Cardinality({i \in Cells : hits[i] = v})

\* ---------------------------------------------------------------- C1

\* C1: in every state where both players have revealed, the board accepted
\* from each player agrees with the hit-grid recorded against that player.
C1_BothBoardsAudited ==
    (game.player1_revealed /\ game.player2_revealed) =>
        /\ Agrees(accepted1, game.board_hits1)
        /\ Agrees(accepted2, game.board_hits2)

\* ---------------------------------------------------------------- C2

\* The reveal checks that come before the audit: the game is over, the caller
\* is that player, has not revealed, the commitment matches, 17 ship cells.
PassesRevealChecks1(p, b, s) ==
    /\ created /\ game.is_game_over
    /\ p = game.player1 /\ ~game.player1_revealed
    /\ Hash(b, s) = game.board_commit1
    /\ ShipCount(b) = FleetSize

PassesRevealChecks2(p, b, s) ==
    /\ created /\ game.is_game_over
    /\ p = game.player2 /\ ~game.player2_revealed
    /\ Hash(b, s) = game.board_commit2
    /\ ShipCount(b) = FleetSize

\* C2: every reveal that passes the checks before the audit, whether or not
\* the opponent has revealed, fails with CheatingDetected when the board
\* disagrees with the caller's hit-grid, and otherwise succeeds and marks the
\* caller revealed.
C2_CheatingSoundness ==
    \A p \in Signers, b \in Boards, s \in Salts :
        /\ PassesRevealChecks1(p, b, s) =>
             LET r == RevealBoardPlayer1Call(p, b, s)
             IN  IF Agrees(b, game.board_hits1)
                 THEN r.err = "Ok" /\ r.game.player1_revealed
                 ELSE r.err = "CheatingDetected"
        /\ PassesRevealChecks2(p, b, s) =>
             LET r == RevealBoardPlayer2Call(p, b, s)
             IN  IF Agrees(b, game.board_hits2)
                 THEN r.err = "Ok" /\ r.game.player2_revealed
                 ELSE r.err = "CheatingDetected"

\* ---------------------------------------------------------------- C3

C4_WinThreshold ==
    /\ [](/\ game.is_game_over <=>
               (game.hits_count1 = FleetSize \/ game.hits_count2 = FleetSize)
          /\ game.winner = 2 <=> game.hits_count1 = FleetSize
          /\ game.winner = 1 <=> game.hits_count2 = FleetSize
          /\ game.winner = 0 <=> ~game.is_game_over
          /\ game.hits_count1 <= FleetSize /\ game.hits_count2 <= FleetSize
          /\ ~(game.hits_count1 = FleetSize /\ game.hits_count2 = FleetSize)
          /\ \A p \in Signers, w \in BOOLEAN :
               LET r == RevealShotResultCall(p, w)
                   firer == IF game.pending_shot_by = game.player1 THEN 1 ELSE 2
                   defender_count ==
                       IF firer = 1 THEN game.hits_count2 ELSE game.hits_count1
                   defender_after ==
                       IF firer = 1 THEN r.game.hits_count2 ELSE r.game.hits_count1
               IN  r.err = "Ok" =>
                       /\ r.game.is_game_over <=>
                            (w /\ defender_count = FleetSize - 1
                               /\ defender_after = FleetSize)
                       /\ r.game.is_game_over => r.game.winner = firer
                       /\ ~r.game.is_game_over => r.game.winner = 0)
    /\ [][game'.is_game_over # game.is_game_over =>
            (~game.is_game_over /\ ResolveStep(TRUE))]_vars

\* Player1 has won: player2's counter has reached the fleet size.
C4_Witness ==
    /\ game.is_game_over
    /\ game.hits_count2 = FleetSize
    /\ game.winner = 1
    /\ game.hits_count1 = FleetSize - 1

\* ---------------------------------------------------------------- C5

\* C5: turn is 1 after join_game; a successful reveal_shot_result that does not
\* end the game flips turn; a successful fire_shot is by the player whose turn
\* it is; a step that changes the turn of an existing account is a successful
\* reveal_shot_result.  Hence over successive fire / resolve pairs the firers
\* alternate.
C5_TurnAlternation ==
    /\ [](/\ \A p \in Signers, c \in Commitments :
               JoinGameCall(p, c).err = "Ok" => JoinGameCall(p, c).game.turn = 1
          /\ \A p \in Signers, w \in BOOLEAN :
               LET r == RevealShotResultCall(p, w)
               IN  (r.err = "Ok" /\ ~r.game.is_game_over) =>
                       /\ game.turn \in {1, 2}
                       /\ r.game.turn = 3 - game.turn
          /\ \A p \in Signers, x \in Coords, y \in Coords :
               LET r == FireShotCall(p, x, y)
               IN  r.err = "Ok" =>
                       /\ p = (IF game.turn = 1 THEN game.player1 ELSE game.player2)
                       /\ r.game.pending_shot_by = p)
    /\ [][(created /\ game'.turn # game.turn) =>
            (ResolveStep(TRUE) \/ ResolveStep(FALSE))]_vars

\* Player1, then player2, have each had a shot resolved, and player1 has
\* fired again.
C5_Witness ==
    /\ game.turn = 1
    /\ game.pending_shot # None
    /\ game.pending_shot_by = game.player1
    /\ CountOf(game.board_hits2, Untouched) = BOARD_CELLS - 1
    /\ CountOf(game.board_hits1, Untouched) = BOARD_CELLS - 1

\* ---------------------------------------------------------------- C6

\* The coordinates of the grid.
OnGrid == 0 .. (GRID - 1)

\* fire_shot's checks before the look-up of the cell pass for signer p.
PassesFireChecks(p) ==
    /\ created /\ game.is_initialized /\ ~game.is_game_over
    /\ game.pending_shot = None
    /\ \/ game.turn = 1 /\ p = game.player1
       \/ game.turn = 2 /\ p = game.player2

\* C6 as stated: a fire_shot at a coordinate already resolved on the
\* defender's hit-grid fails with AlreadyShotHere.
C6_RetargetIsAlreadyShotHere ==
    \A x \in OnGrid, y \in OnGrid :
        /\ (created /\ game.board_hits2[CoordinateIndex(x, y)] # Untouched) =>
             FireShotCall(game.player1, x, y).err = "AlreadyShotHere"
        /\ (created /\ game.board_hits1[CoordinateIndex(x, y)] # Untouched) =>
             FireShotCall(game.player2, x, y).err = "AlreadyShotHere"

\* C6, amended: a fire_shot at a coordinate already resolved on the
\* defender's hit-grid fails, with AlreadyShotHere when the checks before the
\* look-up pass (game Active, no shot pending, the caller's turn); and over
\* any call a hit-grid cell changes only from 0, and only to 1 or 2.
C6_NoRetargeting ==
    /\ [](\A x \in OnGrid, y \in OnGrid :
           /\ (created /\ game.board_hits2[CoordinateIndex(x, y)] # Untouched) =>
                LET r == FireShotCall(game.player1, x, y)
                IN  /\ r.err # "Ok"
                    /\ PassesFireChecks(game.player1) => r.err = "AlreadyShotHere"
           /\ (created /\ game.board_hits1[CoordinateIndex(x, y)] # Untouched) =>
                LET r == FireShotCall(game.player2, x, y)
                IN  /\ r.err # "Ok"
                    /\ PassesFireChecks(game.player2) => r.err = "AlreadyShotHere")
    /\ [][\A i \in Cells :
             /\ game'.board_hits1[i] # game.board_hits1[i] =>
                  /\ game.board_hits1[i] = Untouched
                  /\ game'.board_hits1[i] \in {Miss, Hit}
             /\ game'.board_hits2[i] # game.board_hits2[i] =>
                  /\ game.board_hits2[i] = Untouched
                  /\ game'.board_hits2[i] \in {Miss, Hit}]_vars

\* Player1, whose turn it is, fires at a cell resolved on player2's grid and
\* gets AlreadyShotHere.
C6_Witness ==
    \E x \in OnGrid, y \in OnGrid :
        /\ game.board_hits2[CoordinateIndex(x, y)] # Untouched
        /\ PassesFireChecks(game.player1)
        /\ FireShotCall(game.player1, x, y).err = "AlreadyShotHere"

\* ---------------------------------------------------------------- C7

\* C7: each hit counter equals the number of Hit cells of its hit-grid, and no
\* call makes a counter smaller.
C7_HitCounters ==
    /\ [](/\ game.hits_count1 = CountOf(game.board_hits1, Hit)
          /\ game.hits_count2 = CountOf(game.board_hits2, Hit))
    /\ [][/\ game'.hits_count1 >= game.hits_count1
          /\ game'.hits_count2 >= game.hits_count2]_vars

\* Both grids hold a hit, and player1's a miss as well.
C7_Witness ==
    /\ game.hits_count1 >= 1
    /\ game.hits_count2 >= 1
    /\ CountOf(game.board_hits1, Miss) >= 1

\* ---------------------------------------------------------------- C8

\* The board and salt whose hash a commitment is.
CommittedPair(c) ==
    CHOOSE pr \in Boards \X Salts : Hash(pr[1], pr[2]) = c

\* C8: a reveal succeeds, and marks the player revealed, only if the hash of
\* the board and salt passed is the stored commitment; a reveal by the right
\* player of a finished game, not yet revealed, with a board or salt other than
\* the committed ones fails with CommitmentMismatch; the board accepted from a
\* player is the committed one.
C8_CommitmentBinding ==
    /\ \A p \in Signers, b \in Boards, s \in Salts :
         /\ LET r == RevealBoardPlayer1Call(p, b, s)
            IN  /\ (r.err = "Ok" \/ r.game.player1_revealed # game.player1_revealed)
                     => Hash(b, s) = game.board_commit1
                /\ ( /\ created /\ game.is_game_over
                     /\ p = game.player1 /\ ~game.player1_revealed
                     /\ <<b, s>> # CommittedPair(game.board_commit1) )
                     => r.err = "CommitmentMismatch"
         /\ LET r == RevealBoardPlayer2Call(p, b, s)
            IN  /\ (r.err = "Ok" \/ r.game.player2_revealed # game.player2_revealed)
                     => Hash(b, s) = game.board_commit2
                /\ ( /\ created /\ game.is_game_over
                     /\ p = game.player2 /\ ~game.player2_revealed
                     /\ <<b, s>> # CommittedPair(game.board_commit2) )
                     => r.err = "CommitmentMismatch"
    /\ game.player1_revealed =>
         accepted1 = CommittedPair(game.board_commit1)[1]
    /\ game.player2_revealed =>
         accepted2 = CommittedPair(game.board_commit2)[1]

\* Player1's committed board has been accepted, and player2 is rejected with
\* CommitmentMismatch for the committed board under another salt.
C8_Witness ==
    /\ game.player1_revealed
    /\ ~game.player2_revealed
    /\ \E s \in Salts :
         /\ <<CommittedPair(game.board_commit2)[1], s>>
              # CommittedPair(game.board_commit2)
         /\ RevealBoardPlayer2Call(game.player2,
                CommittedPair(game.board_commit2)[1], s).err
              = "CommitmentMismatch"

\* ---------------------------------------------------------------- C9

\* C9: a reveal that passes the phase, identity, not-yet-revealed and
\* commitment checks with a board that has not exactly 17 ship cells fails with
\* InvalidFleetConfiguration; a revealed player's accepted board has exactly
\* that many ship cells.
C9_FleetSizeOnReveal ==
    /\ \A p \in Signers, b \in Boards, s \in Salts :
         /\ ( /\ created /\ game.is_game_over
              /\ p = game.player1 /\ ~game.player1_revealed
              /\ Hash(b, s) = game.board_commit1
              /\ ShipCount(b) # FleetSize )
              => LET r == RevealBoardPlayer1Call(p, b, s)
                 IN  /\ r.err = "InvalidFleetConfiguration"
                     /\ ~r.game.player1_revealed
         /\ ( /\ created /\ game.is_game_over
              /\ p = game.player2 /\ ~game.player2_revealed
              /\ Hash(b, s) = game.board_commit2
              /\ ShipCount(b) # FleetSize )
              => LET r == RevealBoardPlayer2Call(p, b, s)
                 IN  /\ r.err = "InvalidFleetConfiguration"
                     /\ ~r.game.player2_revealed
    /\ game.player1_revealed => ShipCount(accepted1) = FleetSize
    /\ game.player2_revealed => ShipCount(accepted2) = FleetSize

\* Player1 committed to a board of one ship too many, played the game to its
\* end, and is rejected on reveal; player2 committed to one ship too few.
C9_Witness ==
    /\ game.is_game_over
    /\ game.board_commit1 = Hash(BoardOver, 0)
    /\ game.board_commit2 = Hash(BoardUnder, 0)
    /\ RevealBoardPlayer1Call(game.player1, BoardOver, 0).err
         = "InvalidFleetConfiguration"
    /\ RevealBoardPlayer2Call(game.player2, BoardUnder, 0).err
         = "InvalidFleetConfiguration"

\* ---------------------------------------------------------------- C10

\* C10: once the game is over, no call changes any field of the record other
\* than player1_revealed and player2_revealed.
C10_FinishedIsFrozen ==
    [][game.is_game_over =>
         [game' EXCEPT !.player1_revealed = game.player1_revealed,
                       !.player2_revealed = game.player2_revealed] = game]_vars

\* A finished game in which both reveals have been accepted.
C10_Witness ==
    /\ game.is_game_over
    /\ game.player1_revealed
    /\ game.player2_revealed

\* ---------------------------------------------------------------- C11

\* The game is Active: both players have joined and the game is not over.
Active == created /\ game.is_initialized /\ ~game.is_game_over

\* The step is a successful fire_shot.
FireStep ==
    \E p \in Signers, x \in Coords, y \in Coords :
        /\ FireShotCall(p, x, y).err = "Ok"
        /\ game' = FireShotCall(p, x, y).game

\* The player whose turn it is.
TurnPlayer == IF game.turn = 1 THEN game.player1 ELSE game.player2

\* C11: a shot is pending only in an Active game; a successful fire_shot sets
\* it, a successful reveal_shot_result (the one that ends the game included)
\* clears it, and no other step changes it; while a shot is pending every
\* fire_shot at a coordinate of the grid fails with ShotPending, and in an
\* Active game with none pending every reveal_shot_result fails with
\* NoPendingShot; while a shot is pending, pending_shot_by is the player whose
\* turn it is and the targeted cell of the opponent's hit-grid is Untouched.
C11_PendingShotHandshake ==
    /\ [](/\ game.pending_shot # None => Active
          /\ \A p \in Signers, x \in Coords, y \in Coords :
               LET r == FireShotCall(p, x, y)
               IN  /\ r.err = "Ok" =>
                        game.pending_shot = None /\ r.game.pending_shot = <<x, y>>
                   /\ (game.pending_shot # None /\ x < GRID /\ y < GRID) =>
                        r.err = "ShotPending"
          /\ \A p \in Signers, w \in BOOLEAN :
               LET r == RevealShotResultCall(p, w)
               IN  /\ r.err = "Ok" =>
                        game.pending_shot # None /\ r.game.pending_shot = None
                   /\ (Active /\ game.pending_shot = None) =>
                        r.err = "NoPendingShot"
          /\ game.pending_shot # None =>
               /\ game.pending_shot_by = TurnPlayer
               /\ game.pending_shot_by \in {game.player1, game.player2}
               /\ LET i == CoordinateIndex(game.pending_shot[1], game.pending_shot[2])
                  IN  IF game.pending_shot_by = game.player1
                      THEN game.board_hits2[i] = Untouched
                      ELSE game.board_hits1[i] = Untouched)
    /\ [][game'.pending_shot # game.pending_shot =>
            \/ game.pending_shot = None /\ FireStep
            \/ game.pending_shot # None /\ game'.pending_shot = None
               /\ (ResolveStep(TRUE) \/ ResolveStep(FALSE))]_vars

\* A shot by player2 is pending after earlier shots were resolved.
C11_Witness ==
    /\ game.pending_shot # None
    /\ game.pending_shot_by = game.player2
    /\ CountOf(game.board_hits2, Untouched) < BOARD_CELLS

\* ---------------------------------------------------------------- C12

\* The two players of the game.
Players == {game.player1, game.player2}

\* C12: fire_shot succeeds only for the player whose turn it is; in an Active
\* game with no shot pending, a fire_shot at a coordinate of the grid by the
\* other player fails with NotYourTurn and by any third identity with
\* NotAPlayer. reveal_shot_result succeeds only for the player other than
\* pending_shot_by; while a shot is pending, the firer's call fails with
\* NotDefender and a third identity's with NotAPlayer. A successful resolve
\* writes the target cell of the caller's (the defender's) own hit-grid and
\* leaves the firer's hit-grid and counter as they were.
C12_RoleSeparation ==
    /\ \A p \in Signers, x \in Coords, y \in Coords :
         LET r == FireShotCall(p, x, y)
         IN  /\ r.err = "Ok" => p = TurnPlayer /\ p \in Players
             /\ (Active /\ game.pending_shot = None /\ x < GRID /\ y < GRID) =>
                  /\ p \notin Players => r.err = "NotAPlayer"
                  /\ (p \in Players /\ p # TurnPlayer) => r.err = "NotYourTurn"
    /\ \A p \in Signers, w \in BOOLEAN :
         LET r == RevealShotResultCall(p, w)
             i == CoordinateIndex(game.pending_shot[1], game.pending_shot[2])
         IN  /\ r.err = "Ok" =>
                  /\ p \in Players /\ p # game.pending_shot_by
                  /\ IF p = game.player1
                     THEN /\ r.game.board_hits1[i] # Untouched
                          /\ r.game.board_hits2 = game.board_hits2
                          /\ r.game.hits_count2 = game.hits_count2
                     ELSE /\ r.game.board_hits2[i] # Untouched
                          /\ r.game.board_hits1 = game.board_hits1
                          /\ r.game.hits_count1 = game.hits_count1
             /\ (Active /\ game.pending_shot # None) =>
                  /\ p \notin Players => r.err = "NotAPlayer"
                  /\ p = game.pending_shot_by => r.err = "NotDefender"

\* player1's shot is pending after player1 has resolved a shot of player2 as a
\* hit, and one of the signers is neither player.
C12_Witness ==
    /\ game.pending_shot # None
    /\ game.pending_shot_by = game.player1
    /\ game.hits_count1 > 0
    /\ \E p \in Signers : p \notin Players

\* ---------------------------------------------------------------- C13

\* The game account exists and waits for the second player.
AwaitingOpponent == created /\ ~game.is_initialized /\ ~game.is_game_over

\* C13: once the game has two players (Active or Finished) every join_game
\* fails with GameAlreadyFull; while it waits for an opponent, join_game by
\* player1 fails with CannotPlayAgainstYourself and join_game by anyone else
\* succeeds, changing exactly player2 (the joiner), board_commit2 (the
\* joiner's commitment) and is_initialized (true), so that the game is Active
\* with turn 1; is_initialized never goes back to false, so join_game
\* succeeds at most once.
C13_JoinRules ==
    /\ [](\A p \in Signers, c \in Commitments :
            LET r == JoinGameCall(p, c)
            IN  /\ r.err = "Ok" => AwaitingOpponent
                /\ (created /\ game.is_initialized) => r.err = "GameAlreadyFull"
                /\ (AwaitingOpponent /\ p = game.player1) =>
                     r.err = "CannotPlayAgainstYourself"
                /\ (AwaitingOpponent /\ p # game.player1) =>
                     /\ r.err = "Ok"
                     /\ r.game = [game EXCEPT !.player2 = p,
                                              !.board_commit2 = c,
                                              !.is_initialized = TRUE]
                     /\ r.game.is_initialized /\ ~r.game.is_game_over
                     /\ r.game.turn = 1)
    /\ [][game.is_initialized => game'.is_initialized]_vars

\* The second player has just joined: the game is Active, it is player1's
\* turn and no shot has been fired.
C13_Witness ==
    /\ Active
    /\ game.player2 \notin {DefaultKey, game.player1}
    /\ game.board_commit2 \in Commitments
    /\ game.turn = 1
    /\ game.pending_shot = None
    /\ CountOf(game.board_hits1, Untouched) = BOARD_CELLS
    /\ CountOf(game.board_hits2, Untouched) = BOARD_CELLS

\* ---------------------------------------------------------------- C14

\* The game is over.
Finished == created /\ game.is_initialized /\ game.is_game_over

\* C14: reveal_board_player1 / reveal_board_player2 succeeds only when the
\* game is over, the caller is player1 / player2 and that player's revealed
\* flag is still false, and it then sets the flag; the checks answer in this
\* order: GameNotOver while the game is not over, NotPlayer1 / NotPlayer2 for
\* any other caller of a finished game, AlreadyRevealed for the player whose
\* flag is set; a revealed flag is true only in a finished game and, once
\* true, stays true.
C14_RevealGating ==
    /\ [](/\ \A p \in Signers, b \in Boards, s \in Salts :
               LET r1 == RevealBoardPlayer1Call(p, b, s)
                   r2 == RevealBoardPlayer2Call(p, b, s)
               IN  /\ r1.err = "Ok" =>
                        /\ Finished /\ p = game.player1
                        /\ ~game.player1_revealed /\ r1.game.player1_revealed
                   /\ r2.err = "Ok" =>
                        /\ Finished /\ p = game.player2
                        /\ ~game.player2_revealed /\ r2.game.player2_revealed
                   /\ (created /\ ~game.is_game_over) =>
                        r1.err = "GameNotOver" /\ r2.err = "GameNotOver"
                   /\ (Finished /\ p # game.player1) => r1.err = "NotPlayer1"
                   /\ (Finished /\ p # game.player2) => r2.err = "NotPlayer2"
                   /\ (Finished /\ p = game.player1 /\ game.player1_revealed) =>
                        r1.err = "AlreadyRevealed"
                   /\ (Finished /\ p = game.player2 /\ game.player2_revealed) =>
                        r2.err = "AlreadyRevealed"
          /\ (game.player1_revealed \/ game.player2_revealed) => Finished)
    /\ [][/\ game.player1_revealed => game'.player1_revealed
          /\ game.player2_revealed => game'.player2_revealed]_vars

\* player1 has revealed a board of a finished game and player2 has not.
C14_Witness ==
    /\ Finished
    /\ game.player1_revealed
    /\ ~game.player2_revealed

\* ---------------------------------------------------------------- C15

\* The step is a successful join_game.
JoinStep ==
    \E p \in Signers, c \in Commitments :
        /\ JoinGameCall(p, c).err = "Ok"
        /\ game' = JoinGameCall(p, c).game

\* C15: is_game_over is never true while is_initialized is false, so the
\* flags always give one of AwaitingOpponent, Active, Finished; is_initialized
\* becomes true only by a successful join_game and is_game_over only by a
\* successful reveal_shot_result that reports a hit, and neither flag ever
\* goes back to false; in every Active or Finished state player2 is set and
\* differs from player1, and the commitments are the ones passed to
\* initialize_game and join_game: a successful initialize_game stores its
\* argument as board_commit1, a successful join_game stores its argument as
\* board_commit2, and neither value changes afterwards.
C15_PhaseDiscipline ==
    /\ [](/\ ~(game.is_game_over /\ ~game.is_initialized)
          /\ game.is_initialized =>
               /\ created
               /\ game.player1 # DefaultKey
               /\ game.player2 # DefaultKey
               /\ game.player2 # game.player1
               /\ game.board_commit1 \in Commitments
               /\ game.board_commit2 \in Commitments
          /\ \A p \in Signers, c \in Commitments :
               /\ InitializeGameCall(p, c).err = "Ok" =>
                    /\ InitializeGameCall(p, c).game.board_commit1 = c
                    /\ ~InitializeGameCall(p, c).game.is_initialized
                    /\ ~InitializeGameCall(p, c).game.is_game_over
               /\ JoinGameCall(p, c).err = "Ok" =>
                    /\ JoinGameCall(p, c).game.board_commit2 = c
                    /\ JoinGameCall(p, c).game.board_commit1 = game.board_commit1)
    /\ [][/\ game.is_initialized => game'.is_initialized
          /\ game.is_game_over => game'.is_game_over
          /\ game'.is_initialized # game.is_initialized => JoinStep
          /\ game'.is_game_over # game.is_game_over => ResolveStep(TRUE)
          /\ created => game'.board_commit1 = game.board_commit1
          /\ game.is_initialized =>
               game'.board_commit2 = game.board_commit2]_vars

\* A finished game won by player2, whose commitment differs from player1's.
C15_Witness ==
    /\ Finished
    /\ game.winner = 2
    /\ game.board_commit1 # game.board_commit2

\* ---------------------------------------------------------------- C16

\* C16: for a reveal that passes the phase, caller, flag, commitment and fleet
\* checks: if the opponent's revealed flag is true, the call fails with
\* CheatingDetected exactly when the board passed in contradicts the caller's
\* hit-grid and succeeds otherwise; on CheatingDetected nothing is stored (the
\* caller's flag stays false, the opponent's stays true) and the same call on
\* the resulting state fails with CheatingDetected again; if the opponent's
\* flag is false, the call succeeds and changes only the caller's flag,
\* whether or not the board agrees with the hit-grid.
C16_AuditOnlyInSecondReveal ==
    \A p \in Signers, b \in Boards, s \in Salts :
        LET r1 == RevealBoardPlayer1Call(p, b, s)
            r2 == RevealBoardPlayer2Call(p, b, s)
        IN  /\ PassesRevealChecks1(p, b, s) =>
                 IF game.player2_revealed
                 THEN /\ r1.err = "CheatingDetected" <=> ~Agrees(b, game.board_hits1)
                      /\ r1.err \in {"CheatingDetected", "Ok"}
                      /\ r1.err = "CheatingDetected" =>
                           /\ r1.game = game
                           /\ ~r1.game.player1_revealed /\ r1.game.player2_revealed
                           /\ reveal_board_player1(r1.game, p, b, s).err
                                = "CheatingDetected"
                 ELSE /\ r1.err = "Ok"
                      /\ r1.game = [game EXCEPT !.player1_revealed = TRUE]
            /\ PassesRevealChecks2(p, b, s) =>
                 IF game.player1_revealed
                 THEN /\ r2.err = "CheatingDetected" <=> ~Agrees(b, game.board_hits2)
                      /\ r2.err \in {"CheatingDetected", "Ok"}
                      /\ r2.err = "CheatingDetected" =>
                           /\ r2.game = game
                           /\ ~r2.game.player2_revealed /\ r2.game.player1_revealed
                           /\ reveal_board_player2(r2.game, p, b, s).err
                                = "CheatingDetected"
                 ELSE /\ r2.err = "Ok"
                      /\ r2.game = [game EXCEPT !.player2_revealed = TRUE]

\* player1 has revealed, unaudited, a board that contradicts board_hits1, and
\* player2 holds a board that passes the commitment and fleet checks and
\* contradicts board_hits2, so that player2's reveal is the audited one.
C16_Witness ==
    /\ Finished
    /\ game.player1_revealed /\ ~game.player2_revealed
    /\ ~Agrees(accepted1, game.board_hits1)
    /\ \E b \in Boards, s \in Salts :
         /\ PassesRevealChecks2(game.player2, b, s)
         /\ ~Agrees(b, game.board_hits2)
         /\ RevealBoardPlayer2Call(game.player2, b, s).err = "CheatingDetected"

\* ---------------------------------------------------------------- C17

\* C17: a successful fire_shot(x, y) sets pending_shot to (x, y) and
\* pending_shot_by to the caller and changes no other field: both hit-grids,
\* both hit counters, turn, winner, the phase flags, the players, the
\* commitments and the revealed flags are as before.
C17_FireShotFrame ==
    \A p \in Signers, x \in Coords, y \in Coords :
        LET r == FireShotCall(p, x, y)
        IN  r.err = "Ok" =>
              /\ r.game.pending_shot = <<x, y>>
              /\ r.game.pending_shot_by = p
              /\ r.game = [game EXCEPT !.pending_shot = <<x, y>>,
                                       !.pending_shot_by = p]
              /\ r.game.board_hits1 = game.board_hits1
              /\ r.game.board_hits2 = game.board_hits2
              /\ r.game.hits_count1 = game.hits_count1
              /\ r.game.hits_count2 = game.hits_count2
              /\ r.game.turn = game.turn
              /\ r.game.winner = game.winner
              /\ r.game.is_initialized = game.is_initialized
              /\ r.game.is_game_over = game.is_game_over
              /\ r.game.player1 = game.player1
              /\ r.game.player2 = game.player2
              /\ r.game.board_commit1 = game.board_commit1
              /\ r.game.board_commit2 = game.board_commit2
              /\ r.game.player1_revealed = game.player1_revealed
              /\ r.game.player2_revealed = game.player2_revealed

\* player1's shot is pending: its target on board_hits2 is still Untouched
\* although an earlier shot of player2 has been resolved as a miss.
C17_Witness ==
    /\ game.pending_shot # None
    /\ game.pending_shot_by = game.player1
    /\ game.board_hits2[CoordinateIndex(game.pending_shot[1],
                                        game.pending_shot[2])] = Untouched
    /\ CountOf(game.board_hits1, Miss) > 0

\* ---------------------------------------------------------------- C18

\* The number of resolved (non-Untouched) cells of a hit-grid.
Resolved(hits) == BOARD_CELLS - CountOf(hits, Untouched)

\* C18: the number of resolved cells of board_hits2 (player1's shots) minus
\* the number of resolved cells of board_hits1 (player2's shots) is 0 or 1;
\* in an Active game turn = 1 exactly when the two numbers are equal and
\* turn = 2 exactly when board_hits2 has one more.
C18_ShotBalance ==
    LET ahead == Resolved(game.board_hits2) - Resolved(game.board_hits1)
    IN  /\ ahead \in {0, 1}
        /\ Active => /\ game.turn \in {1, 2}
                     /\ game.turn = 1 <=> ahead = 0
                     /\ game.turn = 2 <=> ahead = 1

\* An Active game in which player1 has had two shots resolved and player2
\* one, so that it is player2's turn.
C18_Witness ==
    /\ Active
    /\ Resolved(game.board_hits2) = 2
    /\ Resolved(game.board_hits1) = 1
    /\ game.turn = 2

\* ---------------------------------------------------------------- C19

\* Some call by some signer succeeds in the current state.
SomeCallSucceeds == ~EveryCall(LAMBDA r : r.err # "Ok")

\* C19: in every Active state with no shot pending the player whose turn it
\* is has an Untouched cell on the opponent's hit-grid, and in every Active
\* state some call succeeds. The program reaches an Active state in which
\* both hit-grids are fully resolved with fewer than FleetSize hits each, and
\* there every call of every signer is rejected.
C19_NoStuckActiveGame ==
    /\ (Active /\ game.pending_shot = None) =>
         \E i \in Cells :
             IF game.turn = 1 THEN game.board_hits2[i] = Untouched
                              ELSE game.board_hits1[i] = Untouched
    /\ Active => SomeCallSucceeds

\* ---------------------------------------------------------------- C20

\* The result r of a call leaves the stored identities and commitments alone:
\* player1 and board_commit1 of an existing account, player2 and
\* board_commit2 of a game that has been joined.
KeepsIdentities(r) ==
    /\ created =>
         /\ r.game.player1 = game.player1
         /\ r.game.board_commit1 = game.board_commit1
    /\ game.is_initialized =>
         /\ r.game.player2 = game.player2
         /\ r.game.board_commit2 = game.board_commit2

\* C20: once the account exists no call of any signer (initialize_game again,
\* join_game, fire_shot, reveal_shot_result, a reveal) changes player1 or
\* board_commit1, and once the game has been joined none changes player2 or
\* board_commit2; player2 and board_commit2 change only in the successful
\* join_game, player1 and board_commit1 only in the initialize_game that
\* creates the account; so the commitment a reveal is compared with is the one
\* stored before the first shot.
C20_WriteOnceIdentities ==
    /\ [](EveryCall(KeepsIdentities))
    /\ [][/\ created =>
               /\ game'.player1 = game.player1
               /\ game'.board_commit1 = game.board_commit1
          /\ game.is_initialized =>
               /\ game'.player2 = game.player2
               /\ game'.board_commit2 = game.board_commit2
          /\ (game'.player2 # game.player2
                \/ game'.board_commit2 # game.board_commit2) => JoinStep
          /\ (game'.player1 # game.player1
                \/ game'.board_commit1 # game.board_commit1) =>
               ~created /\ created']_vars

\* Both players have revealed a board that matches the commitment stored
\* when they entered the game.
C20_Witness ==
    /\ game.player1_revealed /\ game.player2_revealed
    /\ \E s \in Salts : Hash(accepted1, s) = game.board_commit1
    /\ \E s \in Salts : Hash(accepted2, s) = game.board_commit2
    /\ \E p \in Signers : p \notin Players

====
